---- MODULE Spec2Model ----
(***************************************************************************)
(* Model of battlesnake/SnakeLogic.py: the Board class (grid, two health   *)
(* counters) with its constructor, execute_move and the legal-move         *)
(* queries.  Python values that can differ in kind (a list, a tuple, None, *)
(* a raised exception) are modelled with explicit tags so that a result of *)
(* the wrong kind is a value the checks can tell apart.                    *)
(***************************************************************************)
EXTENDS Integers, Sequences, FiniteSets, TLC

\* ---- module constants (SnakeLogic.py lines 15-18, 36) ----
FOOD == 99
WHITE == 1
BLACK == -1
\* The starting health of the standard game rules instead of this module's 15.
HealthStandardRules == 99 + 1
HEALTH == 15
directions == << <<1, 0>>, <<0, -1>>, <<-1, 0>>, <<0, 1>> >>

\* ---- bounds of the model ----
\* Board(n) is called for every n in 0..MaxN.
MaxN == 2
\* The boards a driver hands to the queries have sides 2..MaxGrid and at most
\* MaxCells snake cells, both snakes together.
MaxGrid == 2
MaxCells == 3

VARIABLES n, pieces, white_health, black_health, last

vars == << n, pieces, white_health, black_health, last >>

\* ---- Python values and outcomes ----
\* None, as returned by a function that falls off its end.
None == << >>
\* What is stored in a slot of self.pieces once an int has been assigned
\* over the row list: every read pieces[x][y] of such a row raises TypeError
\* whatever the int is, so the int itself is not kept.
IntRow == << >>
PyNone == [t |-> "None", v |-> << >>]
PyTuple(d) == [t |-> "tuple", v |-> d]
PyList(s) == [t |-> "list", v |-> s]
PyBool(x) == [t |-> "bool", v |-> x]
PyInt(i) == [t |-> "int", v |-> i]
\* A call either returns a value or raises.
Ok(v) == [raised |-> "none", val |-> v]
Raise(e) == [raised |-> e, val |-> << >>]

Range(k) == 0 .. (k - 1)
Squares(k) == Range(k) \X Range(k)
Abs(i) == IF i < 0 THEN -i ELSE i

\* The board object: self.n, self.pieces, self.white_health, self.black_health.
Board == [n |-> n, pieces |-> pieces,
          white_health |-> white_health, black_health |-> black_health]

\* self.pieces[x][y] = v
SetCell(p, x, y, v) == [p EXCEPT ![x][y] = v]

\* _random_free_space without the `if pieces[x][y] == 0` test: any square.
RandomFreeSpaceAny(p, k) == Squares(k)

\* _random_free_space(pieces, n): the set of values the sampling loop can
\* return.  The loop only leaves through `return x, y` on an empty cell; when
\* the set is empty the loop never returns.
RandomFreeSpace(p, k) ==
    { sq \in Squares(k) : p[sq[1]] # IntRow /\ p[sq[1]][sq[2]] = 0 }

\* Board.__init__ with the second player's cell written as 1 instead of -1.
NewBoardsSameSign(k) ==
    LET p0 == [x \in Range(k) |-> [y \in Range(k) |-> 0]]
        P1 == { SetCell(p0, sq[1], sq[2], 1) : sq \in RandomFreeSpace(p0, k) }
        P2 == UNION { { SetCell(p, sq[1], sq[2], 1) : sq \in RandomFreeSpace(p, k) }
                      : p \in P1 }
        P3 == UNION { { SetCell(p, sq[1], sq[2], FOOD) : sq \in RandomFreeSpace(p, k) }
                      : p \in P2 }
    IN  { [n |-> k, pieces |-> p, white_health |-> HEALTH, black_health |-> HEALTH]
          : p \in P3 }

\* Board.__init__(n): every board the constructor can return.
NewBoards(k) ==
    LET p0 == [x \in Range(k) |-> [y \in Range(k) |-> 0]]
        P1 == { SetCell(p0, sq[1], sq[2], 1) : sq \in RandomFreeSpace(p0, k) }
        P2 == UNION { { SetCell(p, sq[1], sq[2], -1) : sq \in RandomFreeSpace(p, k) }
                      : p \in P1 }
        P3 == UNION { { SetCell(p, sq[1], sq[2], FOOD) : sq \in RandomFreeSpace(p, k) }
                      : p \in P2 }
    IN  { [n |-> k, pieces |-> p, white_health |-> HEALTH, black_health |-> HEALTH]
          : p \in P3 }

\* The n=5 board of the specification's scenarios: white head (0,0), black
\* head (4,4), food (2,2).  It is one of the boards Board(5) can return.
ScenarioBoard ==
    LET p0 == [x \in Range(5) |-> [y \in Range(5) |-> 0]]
    IN  [n |-> 5,
         pieces |-> SetCell(SetCell(SetCell(p0, 0, 0, 1), 4, 4, -1), 2, 2, FOOD),
         white_health |-> HEALTH, black_health |-> HEALTH]

\* How a call ends: the exception it raised ("none" when it returned, "no
\* return" when it loops for ever) and the board it leaves behind.
Outcome(e, b) == [raised |-> e, board |-> b]

\* Board(k) as a call: it returns one of NewBoards(k); randint(0, k-1) raises
\* ValueError for k < 1 (empty range); and a placement that finds no cell
\* equal to 0 keeps sampling for ever, the object left as built so far.
Construct(k) ==
    LET p0 == [x \in Range(k) |-> [y \in Range(k) |-> 0]]
        Obj(p) == [n |-> k, pieces |-> p, white_health |-> HEALTH, black_health |-> HEALTH]
        P1 == { SetCell(p0, sq[1], sq[2], 1) : sq \in RandomFreeSpace(p0, k) }
        P2 == UNION { { SetCell(p, sq[1], sq[2], -1) : sq \in RandomFreeSpace(p, k) }
                      : p \in P1 }
        Stuck(P) == { Outcome("no return", Obj(p)) :
                          p \in { q \in P : RandomFreeSpace(q, k) = { } } }
    IN  IF k < 1 THEN { Outcome("ValueError", Obj(p0)) }
        ELSE { Outcome("none", b) : b \in NewBoards(k) } \cup Stuck(P1) \cup Stuck(P2)

\* ---- boards set by the driver ----
\* The driver may assign board.pieces (a public attribute) after
\* construction.  The grids it assigns follow the data model: each side is
\* absent or a snake of orthogonally connected cells numbered from the head
\* (magnitude 1) to the tail, and one cell holds FOOD.
Adjacent(a, c) == Abs(a[1] - c[1]) + Abs(a[2] - c[2]) = 1

RECURSIVE Paths(_, _)
Paths(k, len) ==
    IF len = 0 THEN { << >> }
    ELSE UNION { { Append(q, c) : c \in { sq \in Squares(k) :
                                      /\ \A i \in 1 .. (len - 1) : q[i] # sq
                                      /\ len > 1 => Adjacent(q[len - 1], sq) } }
                 : q \in Paths(k, len - 1) }

Snakes(k) == UNION { Paths(k, len) : len \in 0 .. MaxCells }

Grid(k, w, bl, food) ==
    [x \in Range(k) |-> [y \in Range(k) |->
        IF \E i \in 1 .. Len(w) : w[i] = <<x, y>>
        THEN CHOOSE i \in 1 .. Len(w) : w[i] = <<x, y>>
        ELSE IF \E i \in 1 .. Len(bl) : bl[i] = <<x, y>>
        THEN -(CHOOSE i \in 1 .. Len(bl) : bl[i] = <<x, y>>)
        ELSE IF food = <<x, y>> THEN FOOD ELSE 0]]

Cover(q) == { q[i] : i \in 1 .. Len(q) }

DriverBoards ==
    UNION { { [n |-> k, pieces |-> Grid(k, t[1], t[2], t[3]),
               white_health |-> HEALTH, black_health |-> HEALTH] :
              t \in { u \in Snakes(k) \X Snakes(k) \X Squares(k) :
                        /\ Len(u[1]) + Len(u[2]) <= MaxCells
                        /\ Cover(u[1]) \cap Cover(u[2]) = { }
                        /\ u[3] \notin Cover(u[1]) \cup Cover(u[2]) } }
            : k \in 2 .. MaxGrid }

\* ---- indexing ----
\* Python list index i into a list of length k: negative indices count from
\* the end, anything else out of range raises IndexError.
Index(i, k) ==
    IF i >= 0 /\ i < k THEN Ok(i)
    ELSE IF i < 0 /\ i >= -k THEN Ok(i + k)
    ELSE Raise("IndexError")

\* Board.__getitem__ followed by a second subscript: self[x][y].
GetItem(b, x, y) ==
    LET ix == Index(x, b.n)
    IN  IF ix.raised # "none" THEN ix
        ELSE IF b.pieces[ix.val] = IntRow THEN Raise("TypeError")
        ELSE LET iy == Index(y, b.n)
             IN  IF iy.raised # "none" THEN iy
                 ELSE Ok(b.pieces[ix.val][iy.val])

\* Some row of self.pieces has been overwritten by an int.
HasIntRow(b) == \E x \in Range(b.n) : b.pieces[x] = IntRow

\* ---- Board helpers ----
\* A cell carries the given side's sign (the food sentinel carries none).
Owns(v, color) ==
    /\ v # FOOD
    /\ IF color = WHITE THEN v > 0 ELSE IF color = BLACK THEN v < 0 ELSE FALSE

\* Board._find_head(color): `for x in self.n` iterates over the int self.n,
\* which raises TypeError before any cell is read, for every board and colour.
FindHead(b, color) == Raise("TypeError")

\* Board._find_tail(color): `for x in self.n`, as in _find_head, raises
\* TypeError before any cell is read.
FindTail(b, color) == Raise("TypeError")

\* Board._remove_snake(color): rebuilds self.pieces with every cell of the
\* colour's sign set to 0; food and the other sign are copied.  Iterating a
\* row that is an int raises TypeError.
RemoveSnake(b, color) ==
    IF color # WHITE /\ color # BLACK THEN Ok(b.pieces)
    ELSE IF HasIntRow(b) THEN Raise("TypeError")
    ELSE Ok([x \in Range(b.n) |-> [y \in Range(b.n) |->
                IF Owns(b.pieces[x][y], color) THEN 0 ELSE b.pieces[x][y]]])

\* Board._move_snake(color, head, move, add_to_tail): the value assigned to
\* self.pieces, or the exception that leaves self.pieces as it was.
\*   copy(self.pieces) slices every row (TypeError on an int row);
\*   _find_tail is called and its result unpacked (None stands for the pair
\*   (None, None) it returns when it found no cell: indexing with it raises);
\*   the tail cell is zeroed unless add_to_tail;
\*   `temp_board[temp_board == x] = x + 1 * color` compares a list with an int
\*   (False, which indexes as 0) and so assigns an int over row 0, once per x
\*   in range(body_len);
\*   the head is written at head + move (list indexing, so -1 wraps and n
\*   raises IndexError; a row that is an int raises TypeError).
MoveSnake(b, color, head, move, add_to_tail) ==
    IF HasIntRow(b) THEN Raise("TypeError")
    ELSE
    LET t == FindTail(b, color)
    IN  IF t.raised # "none" THEN t
        ELSE IF t.val = None THEN Raise("TypeError")
        ELSE
        LET body_len == Abs(b.pieces[t.val[1]][t.val[2]])
            t1 == IF add_to_tail THEN b.pieces
                  ELSE SetCell(b.pieces, t.val[1], t.val[2], 0)
            t2 == IF body_len >= 1 THEN [t1 EXCEPT ![0] = IntRow] ELSE t1
            ix == Index(head[1] + move[1], b.n)
            iy == Index(head[2] + move[2], b.n)
        IN  IF ix.raised # "none" THEN ix
            ELSE IF t2[ix.val] = IntRow THEN Raise("TypeError")
            ELSE IF iy.raised # "none" THEN iy
            ELSE Ok(SetCell(t2, ix.val, iy.val, color))

\* The health counter execute_move works on for a colour.
HealthOf(b, color) == IF color = WHITE THEN b.white_health ELSE b.black_health

SetHealth(b, color, h) ==
    IF color = WHITE THEN [b EXCEPT !.white_health = h]
    ELSE IF color = BLACK THEN [b EXCEPT !.black_health = h]
    ELSE b

\* execute_move with the health decrement of lines 131-135 made first and on
\* the other side's counter.
ExecuteMoveWrongCounter(b, move, color) ==
    LET b1 == SetHealth(b, -color, HealthOf(b, -color) - 1)
    IN  { Outcome(FindHead(b1, color).raised, b1) }

\* execute_move with the food respawn of lines 149-150 drawn first: the
\* sampling of _random_free_space on the grid as the call found it.
ExecuteMoveSampleFirst(b, move, color) ==
    IF RandomFreeSpace(b.pieces, b.n) = { }
    THEN { Outcome("no return", b) }
    ELSE { Outcome(FindHead(b, color).raised, b) }

\* Board.execute_move(move, color): the set of ways the call can end.
\*   127      head lookup and unpacking (unpacking None raises TypeError)
\*   131-141  health decrement; at 0 the snake is removed and the call returns
\*   143-150  food: health reset, _move_snake(add_to_tail), then a cell drawn
\*            by _random_free_space is assigned 1 (the sampling raises
\*            TypeError when it reads an int row, and never returns when no
\*            cell is empty: "no return")
\*   151-153  any other non-zero cell: the snake is removed
\*   154-155  empty cell: _move_snake
\* Assignments made before an exception is raised stay made.
ExecuteMove(b, move, color) ==
    LET h == FindHead(b, color)
    IN  IF h.raised # "none" THEN { Outcome(h.raised, b) }
        ELSE IF h.val = None THEN { Outcome("TypeError", b) }
        ELSE
        LET x == move[1] + h.val[1]
            y == move[2] + h.val[2]
            b1 == IF color = WHITE \/ color = BLACK
                  THEN SetHealth(b, color, HealthOf(b, color) - 1) ELSE b
            starved == (color = WHITE \/ color = BLACK) /\ HealthOf(b1, color) = 0
            rm == RemoveSnake(b1, color)
            dest == GetItem(b1, x, y)
            b2 == SetHealth(b1, color, HEALTH)
            grown == MoveSnake(b2, color, h.val, move, TRUE)
            moved == MoveSnake(b1, color, h.val, move, FALSE)
        IN  IF starved
            THEN IF rm.raised # "none" THEN { Outcome(rm.raised, b1) }
                 ELSE { Outcome("none", [b1 EXCEPT !.pieces = rm.val]) }
            ELSE IF dest.raised # "none" THEN { Outcome(dest.raised, b1) }
            ELSE IF dest.val = FOOD
            THEN IF grown.raised # "none" THEN { Outcome(grown.raised, b2) }
                 ELSE LET b3 == [b2 EXCEPT !.pieces = grown.val]
                          free == RandomFreeSpace(b3.pieces, b3.n)
                      IN  (IF HasIntRow(b3) THEN { Outcome("TypeError", b3) } ELSE { })
                          \cup (IF free = { } /\ ~HasIntRow(b3)
                                THEN { Outcome("no return", b3) } ELSE { })
                          \cup { Outcome("none",
                                         [b3 EXCEPT !.pieces = SetCell(b3.pieces, sq[1], sq[2], 1)])
                                 : sq \in free }
            ELSE IF dest.val # 0
            THEN IF rm.raised # "none" THEN { Outcome(rm.raised, b1) }
                 ELSE { Outcome("none", [b1 EXCEPT !.pieces = rm.val]) }
            ELSE IF moved.raised # "none" THEN { Outcome(moved.raised, b1) }
                 ELSE { Outcome("none", [b1 EXCEPT !.pieces = moved.val]) }

\* ---- legal-move queries ----
\* Board.get_moves_for_square(square): None for a square whose value is not
\* exactly 1 or -1, else the list of the directions whose destination is
\* inside the grid and holds 0 or FOOD, in the order of __directions.
LegalFrom(b, x, y, i) ==
    LET dx == x + directions[i][1]
        dy == y + directions[i][2]
    IN  /\ b.n > dx /\ dx >= 0 /\ b.n > dy /\ dy >= 0
        /\ (b.pieces[dx][dy] = 0 \/ b.pieces[dx][dy] = FOOD)

GetMovesForSquare(b, square) ==
    LET x == square[1]
        y == square[2]
        color == b.pieces[x][y]
        Keep(i) == LegalFrom(b, x, y, i)
        idx == SelectSeq(<<1, 2, 3, 4>>, Keep)
    IN  IF color # 1 /\ color # -1 THEN PyNone
        ELSE PyList([k \in 1 .. Len(idx) |-> PyTuple(directions[idx[k]])])

\* The squares in the order the nested loops visit them: y outer, x inner.
ScanOrder(k) == [i \in 1 .. k * k |-> << (i - 1) % k, (i - 1) \div k >>]

\* Board.get_legal_moves(color): one entry per square whose value equals
\* color, in scan order, each entry being what get_moves_for_square returned
\* for that square (moves.append(newmoves)); returned as list(moves).
GetLegalMoves(b, color) ==
    LET IsHead(sq) == b.pieces[sq[1]][sq[2]] = color
        heads == SelectSeq(ScanOrder(b.n), IsHead)
    IN  IF HasIntRow(b) THEN Raise("TypeError")
        ELSE Ok(PyList([k \in 1 .. Len(heads) |-> GetMovesForSquare(b, heads[k])]))

\* Board.has_legal_moves(color): len(self.get_legal_moves(color)) > 0, the
\* length being that of the outer list (one entry per head square).
HasLegalMoves(b, color) ==
    LET r == GetLegalMoves(b, color)
    IN  IF r.raised # "none" THEN r ELSE Ok(Len(r.val.v) > 0)

\* ---- countDiff ----
\* The loop of countDiff with the FOOD tests left out: 99 > 0 counts the food
\* cell as a white cell.
CountDiffFoodCounted(b, color) ==
    LET white_count == Cardinality({ sq \in Squares(b.n) : b.pieces[sq[1]][sq[2]] > 0 })
        black_count == Cardinality({ sq \in Squares(b.n) : b.pieces[sq[1]][sq[2]] < 0 })
    IN  IF HasIntRow(b) THEN Raise("TypeError")
        ELSE Ok(IF color = WHITE THEN white_count - black_count
                ELSE black_count - white_count)

\* Board.countDiff(color): every cell is visited once; a cell that is not
\* FOOD adds to white_count when positive and to black_count when negative.
\* WHITE gets white_count - black_count, any other colour the opposite.
\* Reading a cell of a row that is an int raises TypeError.
CountDiff(b, color) ==
    LET white_count == Cardinality({ sq \in Squares(b.n) :
                           b.pieces[sq[1]][sq[2]] # FOOD /\ b.pieces[sq[1]][sq[2]] > 0 })
        black_count == Cardinality({ sq \in Squares(b.n) :
                           b.pieces[sq[1]][sq[2]] # FOOD /\ b.pieces[sq[1]][sq[2]] < 0 })
    IN  IF HasIntRow(b) THEN Raise("TypeError")
        ELSE Ok(IF color = WHITE THEN white_count - black_count
                ELSE black_count - white_count)

\* ---- the state machine ----
\* What the driver last did: the call, its arguments, the board it was made
\* on, how it ended and what it returned.
Call(op, move, color, b, raised, ret) ==
    [op |-> op, move |-> move, color |-> color, board |-> b,
     raised |-> raised, ret |-> ret]

Install(b) ==
    /\ n = b.n
    /\ pieces = b.pieces
    /\ white_health = b.white_health
    /\ black_health = b.black_health

\* The state after the call Board(n) for n in 0..MaxN, or after Board(5) has
\* returned the scenario board.
Init ==
    \E out \in UNION { Construct(k) : k \in 0 .. MaxN }
                  \cup { Outcome("none", ScenarioBoard) } :
        /\ Install(out.board)
        /\ last = Call("__init__", <<0, 0>>, 0, out.board, out.raised, PyNone)

\* The state after the driver has assigned a grid to board.pieces.
InitBoards ==
    \E b \in DriverBoards :
        /\ Install(b)
        /\ last = Call("pieces", <<0, 0>>, 0, b, "none", PyNone)

\* The driver holds a board: the constructor returned it.
Constructed == ~(last.op = "__init__" /\ last.raised # "none")

Sides == { WHITE, BLACK }
Moves == { directions[i] : i \in 1 .. 4 }

\* The driver calls board.execute_move(move, color).
ExecuteMoveCall ==
    \E move \in Moves, color \in Sides :
        \E out \in ExecuteMove(Board, move, color) :
            /\ Constructed
            /\ n' = out.board.n
            /\ pieces' = out.board.pieces
            /\ white_health' = out.board.white_health
            /\ black_health' = out.board.black_health
            /\ last' = Call("execute_move", move, color, Board, out.raised, PyNone)

\* The driver calls board.get_legal_moves(color).
GetLegalMovesCall ==
    \E color \in Sides :
        LET r == GetLegalMoves(Board, color)
        IN  /\ Constructed
            /\ last' = Call("get_legal_moves", <<0, 0>>, color, Board, r.raised,
                            IF r.raised = "none" THEN r.val ELSE PyNone)
            /\ UNCHANGED << n, pieces, white_health, black_health >>

\* The driver calls board.has_legal_moves(color).
HasLegalMovesCall ==
    \E color \in Sides :
        LET r == HasLegalMoves(Board, color)
        IN  /\ Constructed
            /\ last' = Call("has_legal_moves", <<0, 0>>, color, Board, r.raised,
                            IF r.raised = "none" THEN PyBool(r.val) ELSE PyNone)
            /\ UNCHANGED << n, pieces, white_health, black_health >>

\* A read of the square or of one of its in-grid neighbours hits a row that
\* is an int.
TouchesIntRow(b, sq) ==
    \/ b.pieces[sq[1]] = IntRow
    \/ \E i \in 1 .. 4 : LET dx == sq[1] + directions[i][1]
                          IN  b.n > dx /\ dx >= 0 /\ b.pieces[dx] = IntRow

\* The driver calls board.get_moves_for_square(square) for a square of the
\* grid; the square is recorded in the call's move field.
GetMovesForSquareCall ==
    \E sq \in Squares(n) :
        /\ Constructed
        /\ last' = IF TouchesIntRow(Board, sq)
                   THEN Call("get_moves_for_square", sq, 0, Board, "TypeError", PyNone)
                   ELSE Call("get_moves_for_square", sq, 0, Board, "none",
                             GetMovesForSquare(Board, sq))
        /\ UNCHANGED << n, pieces, white_health, black_health >>

\* The driver calls board.countDiff(color).
CountDiffCall ==
    \E color \in Sides :
        LET r == CountDiff(Board, color)
        IN  /\ Constructed
            /\ last' = Call("countDiff", <<0, 0>>, color, Board, r.raised,
                            IF r.raised = "none" THEN PyInt(r.val) ELSE PyNone)
            /\ UNCHANGED << n, pieces, white_health, black_health >>

Next ==
    \/ ExecuteMoveCall
    \/ CountDiffCall
    \/ GetLegalMovesCall
    \/ HasLegalMovesCall
    \/ GetMovesForSquareCall

\* Boards as the constructor leaves them.
Spec == Init /\ [][Next]_vars

\* Boards whose grid the driver has set.
SpecBoards == InitBoards /\ [][Next]_vars

\* Sequences of execute_move calls on such a board, observed through countDiff.
NextMoves ==
    \/ ExecuteMoveCall
    \/ CountDiffCall

SpecMoves == InitBoards /\ [][NextMoves]_vars

\* ---- vocabulary of the properties ----
CellsOf(b, color) == { sq \in Squares(b.n) : Owns(b.pieces[sq[1]][sq[2]], color) }
FoodCells(b) == { sq \in Squares(b.n) : b.pieces[sq[1]][sq[2]] = FOOD }
HeadCells(b, color) == { sq \in Squares(b.n) : b.pieces[sq[1]][sq[2]] = color }
InGrid(sq, k) == sq[1] \in Range(k) /\ sq[2] \in Range(k)
At(b, sq) == b.pieces[sq[1]][sq[2]]
Opponent(color) == -color

\* The last call was execute_move(move, color) on a board where the colour
\* had a head and more than one health point.
MovedAlive ==
    /\ last.op = "execute_move"
    /\ HeadCells(last.board, last.color) # { }
    /\ HealthOf(last.board, last.color) > 1

\* The head the call started from and the square it aimed at.
Origin == CHOOSE sq \in HeadCells(last.board, last.color) : TRUE
Target == << Origin[1] + last.move[1], Origin[2] + last.move[2] >>

\* The side's tail before the call: its cell of largest magnitude.
OldTail ==
    CHOOSE sq \in CellsOf(last.board, last.color) :
        \A o \in CellsOf(last.board, last.color) :
            Abs(At(last.board, o)) <= Abs(At(last.board, sq))

MovedInto(v) == MovedAlive /\ InGrid(Target, n) /\ At(last.board, Target) = v

C2_GrowsOnFood ==
    MovedInto(FOOD)
        => /\ Cardinality(CellsOf(Board, last.color))
                = Cardinality(CellsOf(last.board, last.color)) + 1
           /\ CellsOf(last.board, last.color) \subseteq CellsOf(Board, last.color)
           /\ At(Board, Target) = last.color
           /\ HealthOf(Board, last.color) = 15

\* C3: a move into an empty cell by a side with health > 1 keeps the side's
\* cell count, zeroes its old tail and writes +1/-1 at the destination; on
\* the scenario board, white's move (1,0) puts the head at (1,0), empties
\* (0,0) and leaves white's health at 14.
C3_OrdinaryMove ==
    /\ MovedInto(0)
          => /\ Cardinality(CellsOf(Board, last.color))
                  = Cardinality(CellsOf(last.board, last.color))
             /\ At(Board, OldTail) = 0
             /\ At(Board, Target) = last.color
    /\ (last.op = "execute_move" /\ last.board = ScenarioBoard
           /\ last.color = WHITE /\ last.move = <<1, 0>>)
          => /\ pieces[1][0] = 1
             /\ pieces[0][0] = 0
             /\ white_health = 14

\* C4: a move by a side with health > 1 into a cell inside the grid that is
\* neither empty nor FOOD leaves no cell of the moving side on the grid.
C4_CollisionEliminates ==
    (MovedAlive /\ InGrid(Target, n)
        /\ At(last.board, Target) # 0 /\ At(last.board, Target) # FOOD)
        => CellsOf(Board, last.color) = { }

\* C5: an execute_move call of a side that does not move into FOOD lowers
\* the side's health by exactly 1; the call that brings it to 0 zeroes the
\* side's cells and changes nothing else (food and opponent as before).
C5_HealthDecay ==
    (/\ last.op = "execute_move"
     /\ HeadCells(last.board, last.color) # { }
     /\ HealthOf(last.board, last.color) >= 1
     /\ InGrid(Target, n)
     /\ (At(last.board, Target) # FOOD \/ HealthOf(last.board, last.color) = 1))
        => /\ HealthOf(Board, last.color) = HealthOf(last.board, last.color) - 1
           /\ HealthOf(Board, last.color) = 0
                 => /\ CellsOf(Board, last.color) = { }
                    /\ \A sq \in Squares(n) \ CellsOf(last.board, last.color) :
                          At(Board, sq) = At(last.board, sq)
                    /\ HealthOf(Board, Opponent(last.color))
                          = HealthOf(last.board, Opponent(last.color))

Count(S) == Cardinality(S)

\* C6: right after Board(n) returns (n*n >= 3) the grid holds exactly one
\* FOOD, one +1 and one -1 on three distinct squares, 0 everywhere else, and
\* both health counters are 15.
C6_Placement ==
    (last.op = "__init__" /\ n * n >= 3)
        => /\ Count(FoodCells(Board)) = 1
           /\ Count(HeadCells(Board, WHITE)) = 1
           /\ Count(HeadCells(Board, BLACK)) = 1
           /\ Count(FoodCells(Board) \cup HeadCells(Board, WHITE)
                        \cup HeadCells(Board, BLACK)) = 3
           /\ Count({ sq \in Squares(n) : At(Board, sq) = 0 }) = n * n - 3
           /\ white_health = 15
           /\ black_health = 15

\* Reached: Board(2) has returned, its four cells holding 1, -1, FOOD and 0.
C6_Witness ==
    /\ last.op = "__init__"
    /\ n = 2
    /\ { At(Board, sq) : sq \in Squares(n) } = { 0, 1, -1, FOOD }

\* C8: in every reachable state both health counters are in 0..15.
C8_HealthRange ==
    /\ white_health \in 0 .. 15
    /\ black_health \in 0 .. 15

\* Reached: execute_move has been called for a side and the counters are
\* still in range.
C8_Witness ==
    /\ last.op = "execute_move"
    /\ last.color = BLACK
    /\ white_health \in 0 .. 15
    /\ black_health \in 0 .. 15

\* The magnitudes a side holds are 1..L, each on exactly one cell.
Contiguous(b, color) ==
    LET cs == CellsOf(b, color)
    IN  \A m \in 1 .. Count(cs) : Count({ sq \in cs : Abs(At(b, sq)) = m }) = 1

\* C9: in every reachable state a side with L >= 1 cells holds exactly the
\* magnitudes 1..L, one cell each, so at most one cell per side is a head.
C9_ContiguousBody ==
    \A color \in Sides :
        /\ Contiguous(Board, color)
        /\ Count(HeadCells(Board, color)) <= 1

\* Reached: after an execute_move call both sides are on the grid.
C9_Witness ==
    /\ last.op = "execute_move"
    /\ CellsOf(Board, WHITE) # { }
    /\ CellsOf(Board, BLACK) # { }

\* The directions some cell of the side can step in.
LegalDirs(b, color) ==
    { directions[i] : i \in { j \in 1 .. 4 :
        \E sq \in CellsOf(b, color) : LegalFrom(b, sq[1], sq[2], j) } }

\* C10: get_legal_moves(side) returns the directions some cell of the side
\* can step in, each once; on the scenario board, exactly (1,0) and (0,1)
\* for white.
C10_LegalMoveSet ==
    last.op = "get_legal_moves"
        => /\ last.raised = "none"
           /\ \A k \in 1 .. Len(last.ret.v) : last.ret.v[k].t = "tuple"
           /\ { last.ret.v[k].v : k \in 1 .. Len(last.ret.v) }
                 = LegalDirs(last.board, last.color)
           /\ Len(last.ret.v) = Count(LegalDirs(last.board, last.color))
           /\ (last.board = ScenarioBoard /\ last.color = WHITE)
                 => { last.ret.v[k].v : k \in 1 .. Len(last.ret.v) }
                       = { <<1, 0>>, <<0, 1>> }

\* A cell of either snake.
SnakeCell(v) == v # 0 /\ v # FOOD

\* The side has a head none of whose four neighbours can be entered: each is
\* outside the grid or holds a snake cell.
HeadBlocked(b, color) ==
    /\ HeadCells(b, color) # { }
    /\ \A sq \in HeadCells(b, color) : \A i \in 1 .. 4 :
          LET d == << sq[1] + directions[i][1], sq[2] + directions[i][2] >>
          IN  InGrid(d, b.n) => SnakeCell(At(b, d))

OpenDirs(b, sq) == { directions[i] : i \in { j \in 1 .. 4 : LegalFrom(b, sq[1], sq[2], j) } }

C14_OutOfBoundsMove ==
    (/\ last.op = "execute_move"
     /\ HeadCells(last.board, last.color) # { }
     /\ ~InGrid(Target, n))
        => /\ last.raised = "OutOfBoundsMove"
           /\ pieces = last.board.pieces

\* C15: Board(n) with n*n < 3 ends with an error: it neither returns a board
\* nor samples for an empty cell forever.
C15_InvalidBoardSize ==
    (last.op = "__init__" /\ last.board.n * last.board.n < 3)
        => /\ last.raised # "none"
           /\ last.raised # "no return"

\* C16: on every board the driver holds, countDiff(WHITE) = -countDiff(BLACK),
\* and countDiff(side) is the number of the side's cells minus the number of
\* the opponent's cells, the FOOD cell being counted for neither; a countDiff
\* call returns that number.
C16_CountDiffAntisymmetric ==
    Constructed
        => /\ \A c \in Sides :
                 /\ CountDiff(Board, c).raised = "none"
                 /\ CountDiff(Board, c).val
                       = Count(CellsOf(Board, c)) - Count(CellsOf(Board, Opponent(c)))
           /\ CountDiff(Board, WHITE).val = -CountDiff(Board, BLACK).val
           /\ last.op = "countDiff"
                 => /\ last.raised = "none"
                    /\ last.ret.v = Count(CellsOf(Board, last.color))
                                       - Count(CellsOf(Board, Opponent(last.color)))

\* countDiff has been called for a side that is behind, on a board with a
\* FOOD cell, and returned a negative number.
C16_Witness ==
    /\ last.op = "countDiff"
    /\ FoodCells(last.board) # { }
    /\ CellsOf(last.board, last.color) # { }
    /\ last.ret.t = "int"
    /\ last.ret.v < 0

C18_OpponentUntouched ==
    last.op = "execute_move"
        => /\ \A sq \in Squares(n) :
                 (\/ Owns(At(last.board, sq), Opponent(last.color))
                  \/ Owns(At(Board, sq), Opponent(last.color)))
                    => At(Board, sq) = At(last.board, sq)
           /\ HealthOf(Board, Opponent(last.color))
                 = HealthOf(last.board, Opponent(last.color))

\* A side with health > 1 has made a move aimed at a cell of its opponent.
C18_Witness ==
    /\ MovedAlive
    /\ InGrid(Target, n)
    /\ Owns(At(last.board, Target), Opponent(last.color))
    /\ CellsOf(Board, Opponent(last.color)) # { }

\* The last two calls were execute_move calls of the two sides, made one
\* after the other with both heads on the grid and both healths above 1, and
\* both aimed at the same empty cell.
SameCellRace ==
    /\ last.op = "execute_move"
    /\ last'.op = "execute_move"
    /\ last'.color = Opponent(last.color)
    /\ HeadCells(last.board, WHITE) # { }
    /\ HeadCells(last.board, BLACK) # { }
    /\ last.board.white_health > 1
    /\ last.board.black_health > 1
    /\ InGrid(Target, n)
    /\ At(last.board, Target) = 0
    /\ LET h == CHOOSE sq \in HeadCells(last.board, last'.color) : TRUE
       IN  << h[1] + last'.move[1], h[2] + last'.move[2] >> = Target

\* C19: when both sides are moved into the same empty cell, one call after
\* the other, the side moved first holds the cell afterwards and the side
\* moved second has no cell left, whichever side is moved first.
C19_FirstCallWins ==
    [][SameCellRace
          => /\ pieces'[Target[1]][Target[2]] = last.color
             /\ \A sq \in Squares(n) : ~Owns(pieces'[sq[1]][sq[2]], last'.color)]_vars

====
